---------------------------- MODULE Spec2Model ----------------------------
(***************************************************************************)
(* cryptlib: prime-field arithmetic, short-Weierstrass point arithmetic,   *)
(* ECDSA sign/verify and ECDH, modelled from src/cryptlib.                 *)
(*                                                                         *)
(* Every library function is a pure function of its arguments, so each is  *)
(* an operator computed the way the code computes it (loops are RECURSIVE  *)
(* operators carrying the loop's variables).  The initial state holds the  *)
(* operation a caller chose and its arguments, drawn from bounded sets; an *)
(* action is one call, which records the outcome.  An outcome is a record  *)
(*     [st |-> "ok", val |-> v]          the function returned v           *)
(*     [st |-> <exception name>, val |-> 0]   the function raised          *)
(* Python integers are unbounded; every value of the model stays far below *)
(* 2^31, so no width is lost.                                              *)
(***************************************************************************)
EXTENDS Integers, Sequences, FiniteSets, TLC

VARIABLES
    cv,      \* the Curve the objects are bound to (Curve.__init__)
    op,      \* name of the last operation called
    args,    \* its arguments
    ret,     \* its outcome
    kp,      \* ECDSA: the key pair generate_keypair returned, as bytes
    sg,      \* ECDSA: the signature sign returned, with the digest signed
    xch      \* ECDH: the two parties' key pairs and derived secrets

vars == <<cv, op, args, ret, kp, sg, xch>>

Ok(v) == [st |-> "ok", val |-> v]
Raise(e) == [st |-> e, val |-> 0]

None == [st |-> "none", val |-> 0]

(***************************************************************************)
(* Bounds of the model.                                                    *)
(***************************************************************************)
MaxMod == 30        \* modinv: moduli 2..MaxMod
MaxA == 64          \* modinv: a in -MaxA..MaxA
MaxPrime == 41      \* modular_sqrt: primes up to MaxPrime
CoordExtra == 3     \* point_add: coordinates in 0..p+CoordExtra
MaxRand == 16       \* ECDSA generate_keypair: os.urandom values 0..MaxRand
MaxKey == 16        \* sign: private keys 0..MaxKey on the one-byte curves
MaxDigest == 2      \* digests <<0>> .. <<MaxDigest>>, and <<255>>

(***************************************************************************)
(* Field / integer arithmetic  (core/ecc_math.py)                          *)
(***************************************************************************)

\* the while loop of modinv, lines 17-22; returns lm at exit
RECURSIVE ModinvLoop(_, _, _, _)
ModinvLoop(lm, hm, low, high) ==
    IF low > 1
    THEN LET r == high \div low
             nm == hm - lm * r
             new == high - low * r
         IN ModinvLoop(nm, lm, new, low)
    ELSE lm

ModinvNoFinalReduce(a, m) ==
    IF a = 0 THEN Raise("ValueError")
    ELSE Ok(ModinvLoop(1, 0, a % m, m))

modinv(a, m) ==
    IF a = 0 THEN Raise("ValueError")
    ELSE Ok(ModinvLoop(1, 0, a % m, m) % m)

\* Python's three-argument pow(b, e, m), e >= 0, by square and multiply
RECURSIVE PowMod(_, _, _)
PowMod(b, e, m) ==
    IF e = 0 THEN 1 % m
    ELSE LET h == PowMod(b, e \div 2, m)
             sq == (h * h) % m
         IN IF e % 2 = 1 THEN (sq * (b % m)) % m ELSE sq

\* lines 36-40: strip the factors of two from p - 1; returns <<q, s>>
RECURSIVE SplitTwos(_, _)
SplitTwos(q, s) ==
    IF q % 2 = 0 THEN SplitTwos(q \div 2, s + 1) ELSE <<q, s>>

\* lines 41-43: the least z >= 2 that is a non-residue
RECURSIVE FindNonResidue(_, _)
FindNonResidue(z, p) ==
    IF PowMod(z, (p - 1) \div 2, p) # p - 1 THEN FindNonResidue(z + 1, p) ELSE z

\* lines 53-57: the least i >= 1 with t^(2^i) = 1
RECURSIVE LeastI(_, _, _)
LeastI(t2i, i, p) ==
    IF t2i # 1 THEN LeastI(PowMod(t2i, 2, p), i + 1, p) ELSE i

\* lines 48-62: the main Tonelli-Shanks loop
RECURSIVE TonelliLoop(_, _, _, _, _)
TonelliLoop(m, c, t, r, p) ==
    IF t = 0 THEN 0
    ELSE IF t = 1 THEN r
    ELSE LET i == LeastI(PowMod(t, 2, p), 1, p)
             b == PowMod(c, 2 ^ (m - i - 1), p)
             c2 == (b * b) % p
         IN TonelliLoop(i, c2, (t * c2) % p, (r * b) % p, p)

TonelliBody(a, p) ==
    LET qs == SplitTwos(p - 1, 0)
        q == qs[1]
        s == qs[2]
        z == FindNonResidue(2, p)
    IN TonelliLoop(s, PowMod(z, q, p), PowMod(a, q, p),
                   PowMod(a, (q + 1) \div 2, p), p)

ModularSqrtFastPathOnly(a, p) ==
    IF a = 0 THEN Ok(0)
    ELSE IF p = 2 THEN Ok(a % 2)
    ELSE IF PowMod(a, (p - 1) \div 2, p) # 1 THEN Raise("ValueError")
    ELSE Ok(PowMod(a, (p + 1) \div 4, p))

modular_sqrt(a, p) ==
    IF a = 0 THEN Ok(0)
    ELSE IF p = 2 THEN Ok(a % 2)
    ELSE IF PowMod(a, (p - 1) \div 2, p) # 1 THEN Raise("ValueError")
    ELSE IF p % 4 = 3 THEN Ok(PowMod(a, (p + 1) \div 4, p))
    ELSE Ok(TonelliBody(a, p))

\* mathematical reference notions used only to state the properties
RECURSIVE Gcd(_, _)
Gcd(x, y) == IF y = 0 THEN x ELSE Gcd(y, x % y)

Abs(x) == IF x < 0 THEN -x ELSE x

IsPrime(p) == p > 1 /\ \A d \in 2..(p - 1) : p % d # 0

IsResidue(a, p) == \E y \in 1..(p - 1) : (y * y) % p = a % p

(***************************************************************************)
(* Calls of the field functions                                            *)
(***************************************************************************)
NoCurve == [name |-> "none", p |-> 0, a |-> 0, b |-> 0, gx |-> 0, gy |-> 0, n |-> 0]
NoXch == [A |-> None, B |-> None, sA |-> None, sB |-> None]

ModinvInputs == {<<a, m>> : a \in (-MaxA)..MaxA, m \in 2..MaxMod}

ModularSqrtInputs ==
    {<<a, p>> : a \in 0..MaxPrime, p \in {q \in 2..MaxPrime : IsPrime(q)}}

\* the caller has chosen a function and its arguments; nothing has run yet
InitField ==
    /\ cv = NoCurve
    /\ \/ op = "modinv" /\ args \in ModinvInputs
       \/ op = "modular_sqrt" /\ args \in ModularSqrtInputs
    /\ ret = None
    /\ kp = None /\ sg = None /\ xch = NoXch

CallModinv ==
    /\ op = "modinv" /\ ret = None
    /\ ret' = modinv(args[1], args[2])
    /\ UNCHANGED <<cv, op, args, kp, sg, xch>>

CallModularSqrt ==
    /\ op = "modular_sqrt" /\ ret = None
    /\ ret' = modular_sqrt(args[1], args[2])
    /\ UNCHANGED <<cv, op, args, kp, sg, xch>>

NextField == CallModinv \/ CallModularSqrt

SpecField == InitField /\ [][NextField]_vars

(***************************************************************************)
(* C4: for m > 1 and gcd(a, m) = 1, modinv(a, m) returns v with            *)
(* 0 <= v <= m - 1 and (a * v) mod m = 1.                                  *)
(***************************************************************************)
C4_ModinvCorrect ==
    (op = "modinv" /\ ret # None /\ Gcd(Abs(args[1]), args[2]) = 1)
        => /\ ret.st = "ok"
           /\ ret.val \in 0..(args[2] - 1)
           /\ (args[1] * ret.val) % args[2] = 1

\* a negative a and an a larger than m, each needing several loop rounds
C4_Witness ==
    /\ op = "modinv"
    /\ args \in {<<-17, 29>>, <<57, 23>>}
    /\ ret.st = "ok"

(***************************************************************************)
(* C5: whenever no inverse exists (a = 0 mod m, or gcd(a, m) # 1),         *)
(* modinv raises and never returns an integer.                             *)
(***************************************************************************)
C5_ModinvRaisesWithoutInverse ==
    (op = "modinv" /\ ret # None /\ Gcd(Abs(args[1]), args[2]) # 1)
        => ret.st # "ok"

(***************************************************************************)
(* C8: for an odd prime p and a quadratic residue a in 1..p-1,             *)
(* modular_sqrt(a, p) returns r in 0..p-1 with r * r mod p = a.            *)
(***************************************************************************)
C8_ModularSqrtCorrect ==
    (/\ op = "modular_sqrt"
     /\ ret # None
     /\ args[2] # 2
     /\ args[1] \in 1..(args[2] - 1)
     /\ IsResidue(args[1], args[2]))
        => /\ ret.st = "ok"
           /\ ret.val \in 0..(args[2] - 1)
           /\ (ret.val * ret.val) % args[2] = args[1]

\* p = 17 and p = 41 take the Tonelli-Shanks path with more than one round
C8_Witness ==
    /\ op = "modular_sqrt"
    /\ args \in {<<2, 17>>, <<2, 41>>}
    /\ ret.st = "ok"
    /\ (ret.val * ret.val) % args[2] = args[1]

(***************************************************************************)
(* Point and Curve  (core/ecc_math.py)                                     *)
(*                                                                         *)
(* A point is a record [inf, x, y]; Python's None (and any Point with an   *)
(* absent coordinate) is the one value Infinity.                           *)
(***************************************************************************)
Pt(x, y) == [inf |-> FALSE, x |-> x, y |-> y]
Infinity == [inf |-> TRUE, x |-> 0, y |-> 0]

is_infinite(pt) == pt.inf

(***************************************************************************)
(* Curve parameter tables.  The library binds P-256, P-384 and P-521; the  *)
(* model binds curves of the same shape (short Weierstrass, prime group    *)
(* order n, cofactor 1, generator of order n) over primes small enough to  *)
(* enumerate.  "t271" has p, n > 256, so that coordinates and signature    *)
(* components take one or two bytes; its a is p - 3 as on the NIST curves. *)
(***************************************************************************)
CurveT5 == [name |-> "t5", p |-> 5, a |-> 2, b |-> 1, gx |-> 0, gy |-> 1, n |-> 7]
CurveT11 == [name |-> "t11", p |-> 11, a |-> 8, b |-> 10, gx |-> 2, gy |-> 1, n |-> 7]
CurveT23 == [name |-> "t23", p |-> 23, a |-> 20, b |-> 8, gx |-> 1, gy |-> 11, n |-> 31]
CurveT271 == [name |-> "t271", p |-> 271, a |-> 268, b |-> 7, gx |-> 1, gy |-> 33, n |-> 269]

\* Curve.__init__: self.g = Point(params.gx, params.gy)
G(c) == Pt(c.gx, c.gy)

is_on_curve(c, point) ==
    IF is_infinite(point) THEN TRUE
    ELSE (point.y * point.y
            - (point.x * point.x * point.x + c.a * point.x + c.b)) % c.p = 0

\* an exception raised by modinv propagates out of point_add
point_add(c, p, q) ==
    IF is_infinite(p) THEN Ok(q)
    ELSE IF is_infinite(q) THEN Ok(p)
    ELSE IF p.x = q.x /\ (p.y + q.y) % c.p = 0 THEN Ok(Infinity)
    ELSE LET inv == IF p.x = q.x THEN modinv(2 * p.y, c.p)
                    ELSE modinv(q.x - p.x, c.p)
         IN IF inv.st # "ok" THEN inv
            ELSE LET m == IF p.x = q.x
                          THEN ((3 * p.x * p.x + c.a) * inv.val) % c.p
                          ELSE ((q.y - p.y) * inv.val) % c.p
                     xr == (m * m - p.x - q.x) % c.p
                     yr == (m * (p.x - xr) - p.y) % c.p
                 IN Ok(Pt(xr, yr))

\* the while loop of scalar_mult, lines 116-120, for k >= 0
RECURSIVE ScalarLoop(_, _, _, _)
ScalarLoop(c, k, result, addend) ==
    IF k = 0 THEN Ok(result)
    ELSE LET r1 == IF k % 2 = 1 THEN point_add(c, result, addend) ELSE Ok(result)
         IN IF r1.st # "ok" THEN r1
            ELSE LET a1 == point_add(c, addend, addend)
                 IN IF a1.st # "ok" THEN a1
                    ELSE ScalarLoop(c, k \div 2, r1.val, a1.val)

ScalarMultSkipsLowBit(c, k, p) ==
    LET p1 == IF is_infinite(p) THEN G(c) ELSE p
    IN IF k % c.n = 0 \/ is_infinite(p1) THEN Ok(Infinity)
       ELSE ScalarLoop(c, k \div 2, Infinity, p1)

\* p = Infinity stands for the default argument None, replaced by self.g
scalar_mult(c, k, p) ==
    LET p1 == IF is_infinite(p) THEN G(c) ELSE p
    IN IF k % c.n = 0 \/ is_infinite(p1) THEN Ok(Infinity)
       ELSE ScalarLoop(c, k, Infinity, p1)

\* reference: point_add(., P) applied k times in a row to the outcome acc.
\* The k applications are split into a first run of k \div 2 and a second
\* run of the rest, so that the evaluation nests only log k deep.
RECURSIVE AddTimes(_, _, _, _)
AddTimes(c, acc, P, k) ==
    IF k = 0 \/ acc.st # "ok" THEN acc
    ELSE IF k = 1 THEN point_add(c, acc.val, P)
    ELSE LET first == AddTimes(c, acc, P, k \div 2)
         IN IF first.st # "ok" THEN first
            ELSE AddTimes(c, Ok(first.val), P, k - k \div 2)

\* reference: k-fold point_add(., P) starting from infinity
RepeatAdd(c, k, P) == AddTimes(c, Ok(Infinity), P, k)

\* the points of the curve with coordinates that are field elements
FieldPoints(c) ==
    {pt \in {Pt(x, y) : x \in 0..(c.p - 1), y \in 0..(c.p - 1)} : is_on_curve(c, pt)}

\* finite points with arbitrary coordinates, reduced into [0, p-1] or not,
\* on the curve or not: what verify can build from public-key bytes
AnyPoints(c) ==
    {Pt(x, y) : x \in 0..(c.p + CoordExtra), y \in 0..(c.p + CoordExtra)}

(***************************************************************************)
(* Calls of the curve functions                                            *)
(***************************************************************************)
PointAddInputs(c) ==
    {<<P, Q>> : P \in AnyPoints(c) \cup {Infinity}, Q \in AnyPoints(c) \cup {Infinity}}

ScalarMultInputs(c) ==
    {<<k, P>> : k \in 0..(2 * c.n), P \in FieldPoints(c) \cup {Infinity}}

InitCurve ==
    /\ \/ /\ cv \in {CurveT5, CurveT11}
          /\ op = "point_add"
          /\ args \in PointAddInputs(cv)
       \/ /\ cv \in {CurveT5, CurveT11, CurveT23}
          /\ op = "scalar_mult"
          /\ args \in ScalarMultInputs(cv)
    /\ ret = None
    /\ kp = None /\ sg = None /\ xch = NoXch

CallPointAdd ==
    /\ op = "point_add" /\ ret = None
    /\ ret' = point_add(cv, args[1], args[2])
    /\ UNCHANGED <<cv, op, args, kp, sg, xch>>

CallScalarMult ==
    /\ op = "scalar_mult" /\ ret = None
    /\ ret' = scalar_mult(cv, args[1], args[2])
    /\ UNCHANGED <<cv, op, args, kp, sg, xch>>

NextCurve == CallPointAdd \/ CallScalarMult

SpecCurve == InitCurve /\ [][NextCurve]_vars

\* the point scalar_mult is applied to: the argument, or G by default
ScalarMultPoint == IF is_infinite(args[2]) THEN G(cv) ELSE args[2]

(***************************************************************************)
(* C6: for an on-curve point P (default G) and 0 <= k <= 2n,               *)
(* scalar_mult(k, P) is the point reached from infinity by k applications  *)
(* of point_add(., P); so scalar_mult(1, G) = G, scalar_mult(n, G) is      *)
(* infinity, and the result is infinity exactly when k = 0 mod n.          *)
(***************************************************************************)
C6_ScalarMultIsRepeatedAdd ==
    (op = "scalar_mult" /\ ret # None)
        => /\ ret = RepeatAdd(cv, args[1], ScalarMultPoint)
           /\ ret.st = "ok"
           /\ is_infinite(ret.val) <=> (args[1] % cv.n = 0)
           /\ (args[1] = 1 /\ is_infinite(args[2])) => ret.val = G(cv)
           /\ args[1] = cv.n => ret.val = Infinity

\* a scalar above n whose binary expansion has several one bits
C6_Witness ==
    /\ op = "scalar_mult"
    /\ cv = CurveT23
    /\ args[1] = cv.n + 14
    /\ ~is_infinite(args[2])
    /\ ret.st = "ok"
    /\ ~is_infinite(ret.val)

(***************************************************************************)
(* C10: for finite P, Q with arbitrary integer coordinates that pass the   *)
(* identity and negation checks, if the slope denominator (2 * P.y when    *)
(* P.x = Q.x, else Q.x - P.x) is 0 mod p, point_add raises instead of      *)
(* returning a point.                                                      *)
(***************************************************************************)
SlopeDenominator(P, Q) == IF P.x = Q.x THEN 2 * P.y ELSE Q.x - P.x

C10_PointAddRaisesOnZeroDenominator ==
    (/\ op = "point_add"
     /\ ret # None
     /\ ~is_infinite(args[1])
     /\ ~is_infinite(args[2])
     /\ ~(args[1].x = args[2].x /\ (args[1].y + args[2].y) % cv.p = 0)
     /\ SlopeDenominator(args[1], args[2]) % cv.p = 0)
        => ret.st # "ok"

(***************************************************************************)
(* ECDH key exchange  (algorithms/ecdh.py)                                 *)
(***************************************************************************)

ECDHGenerateKeypairNoPlusOne(c, rb) ==
    LET pub == scalar_mult(c, rb, Infinity)
    IN IF pub.st # "ok" THEN pub
       ELSE Ok([pub |-> pub.val, priv |-> rb])

\* rb is the value secrets.randbelow(n - 1) returned, in 0..n-2
ECDH_generate_keypair(c, rb) ==
    LET private_scalar == rb + 1
        pub == scalar_mult(c, private_scalar, Infinity)
    IN IF pub.st # "ok" THEN pub
       ELSE Ok([pub |-> pub.val, priv |-> private_scalar])

derive_shared_secret(c, private_scalar, peer_public_point) ==
    LET shared == scalar_mult(c, private_scalar, peer_public_point)
    IN IF shared.st # "ok" THEN shared
       ELSE IF is_infinite(shared.val) THEN Raise("ValueError")
       ELSE Ok(shared.val.x)

\* two parties on one curve; args holds what randbelow returns to each
InitECDH ==
    /\ cv \in {CurveT5, CurveT11, CurveT23}
    /\ op = "ecdh"
    /\ args \in {<<ra, rb>> : ra \in 0..(cv.n - 2), rb \in 0..(cv.n - 2)}
    /\ ret = None
    /\ kp = None /\ sg = None /\ xch = NoXch

GenerateKeypairA ==
    /\ xch.A = None
    /\ xch' = [xch EXCEPT !.A = ECDH_generate_keypair(cv, args[1])]
    /\ UNCHANGED <<cv, op, args, ret, kp, sg>>

GenerateKeypairB ==
    /\ xch.B = None
    /\ xch' = [xch EXCEPT !.B = ECDH_generate_keypair(cv, args[2])]
    /\ UNCHANGED <<cv, op, args, ret, kp, sg>>

\* A derives from its private scalar and B's public point
DeriveA ==
    /\ xch.A.st = "ok" /\ xch.B.st = "ok" /\ xch.sA = None
    /\ xch' = [xch EXCEPT
                 !.sA = derive_shared_secret(cv, xch.A.val.priv, xch.B.val.pub)]
    /\ UNCHANGED <<cv, op, args, ret, kp, sg>>

DeriveB ==
    /\ xch.A.st = "ok" /\ xch.B.st = "ok" /\ xch.sB = None
    /\ xch' = [xch EXCEPT
                 !.sB = derive_shared_secret(cv, xch.B.val.priv, xch.A.val.pub)]
    /\ UNCHANGED <<cv, op, args, ret, kp, sg>>

NextECDH == GenerateKeypairA \/ GenerateKeypairB \/ DeriveA \/ DeriveB

SpecECDH == InitECDH /\ [][NextECDH]_vars

(***************************************************************************)
(* C3: for private scalars a, b in [1, n-1] with A = scalar_mult(a) and    *)
(* B = scalar_mult(b), derive_shared_secret(a, B) and                      *)
(* derive_shared_secret(b, A) both succeed and return the same value.      *)
(***************************************************************************)
C3_ECDHAgreement ==
    /\ xch.A # None => (xch.A.st = "ok" /\ xch.A.val.priv \in 1..(cv.n - 1))
    /\ xch.B # None => (xch.B.st = "ok" /\ xch.B.val.priv \in 1..(cv.n - 1))
    /\ xch.sA # None => xch.sA.st = "ok"
    /\ xch.sB # None => xch.sB.st = "ok"
    /\ (xch.sA # None /\ xch.sB # None) => xch.sA.val = xch.sB.val

\* both parties derived, from different private scalars
C3_Witness ==
    /\ xch.sA.st = "ok" /\ xch.sB.st = "ok"
    /\ xch.A.val.priv # xch.B.val.priv
    /\ xch.A.val.priv > 1 /\ xch.B.val.priv > 1
    /\ xch.sA.val = xch.sB.val

(***************************************************************************)
(* Byte strings are sequences of integers in 0..255.                       *)
(***************************************************************************)

\* int.from_bytes(b, "big")
RECURSIVE IntFromBytes(_)
IntFromBytes(b) ==
    IF b = <<>> THEN 0
    ELSE IntFromBytes(SubSeq(b, 1, Len(b) - 1)) * 256 + b[Len(b)]

\* int.bit_length() of x >= 0
RECURSIVE BitLength(_)
BitLength(x) == IF x = 0 THEN 0 ELSE 1 + BitLength(x \div 2)

\* the big-endian digits of x < 256^len, len of them
RECURSIVE Digits(_, _)
Digits(x, len) ==
    IF len = 0 THEN <<>> ELSE Append(Digits(x \div 256, len - 1), x % 256)

\* x.to_bytes(len, "big"): OverflowError when x does not fit
ToBytes(x, len) ==
    IF x < 0 \/ x >= 256 ^ len THEN Raise("OverflowError") ELSE Ok(Digits(x, len))

\* x.to_bytes((x.bit_length() + 7) // 8, "big"): always fits
MinBytes(x) == Digits(x, (BitLength(x) + 7) \div 8)

(***************************************************************************)
(* Deterministic nonce  (algorithms/deterministic_nonce.py)                *)
(*                                                                         *)
(* hashlib and hmac are outside the library.  A digest is a byte string    *)
(* h1; the HMAC chain is an oracle whose successive candidate blocks T,    *)
(* already through bits2int(T, qlen), are the sequence cands.              *)
(***************************************************************************)
bits2int(b, qlen) ==
    LET i == IntFromBytes(b)
        blen == Len(b) * 8
    IN IF blen > qlen THEN i \div (2 ^ (blen - qlen)) ELSE i

int2octets(x, rolen) == ToBytes(x, rolen)

bits2octets(b, q, qlen) ==
    LET z1 == bits2int(b, qlen)
        z2 == IF z1 >= q THEN z1 - q ELSE z1
    IN int2octets(z2, (qlen + 7) \div 8)

\* the candidate loop, lines 42-51: the first candidate with 1 <= k < q
RECURSIVE CandidateLoop(_, _)
CandidateLoop(q, cands) ==
    IF 1 <= Head(cands) /\ Head(cands) < q THEN Head(cands)
    ELSE CandidateLoop(q, Tail(cands))

\* line 36 builds bx from int2octets(x, rolen) and bits2octets(h1, q, qlen);
\* either raising ends the call before the candidate loop
generate_k(q, x, h1, cands) ==
    LET qlen == BitLength(q)
        rolen == (qlen + 7) \div 8
        xo == int2octets(x, rolen)
        ho == bits2octets(h1, q, qlen)
    IN IF xo.st # "ok" THEN xo
       ELSE IF ho.st # "ok" THEN ho
       ELSE Ok(CandidateLoop(q, cands))

(***************************************************************************)
(* ECDSA  (algorithms/ecdsa_signer.py)                                     *)
(***************************************************************************)

\* rand is int.from_bytes(os.urandom(...), "big")
ECDSA_generate_keypair(c, rand) ==
    LET private_key == rand % c.n
        public_point == scalar_mult(c, private_key, Infinity)
    IN IF public_point.st # "ok" THEN public_point
       ELSE IF is_infinite(public_point.val) THEN Raise("AttributeError")
       ELSE LET private_bytes == ToBytes(private_key, (BitLength(c.n) + 7) \div 8)
            IN IF private_bytes.st # "ok" THEN private_bytes
               ELSE Ok([pk |-> MinBytes(public_point.val.x)
                                  \o MinBytes(public_point.val.y),
                        sk |-> private_bytes.val])

\* h1 is hash_func(message).digest()
sign(c, private_key, h1, cands) ==
    LET z == IntFromBytes(h1)
        d == IntFromBytes(private_key)
        k == generate_k(c.n, d, h1, cands)
    IN IF k.st # "ok" THEN k
       ELSE LET R == scalar_mult(c, k.val, Infinity)
            IN IF R.st # "ok" THEN R
               ELSE IF is_infinite(R.val) THEN Raise("AttributeError")
               ELSE LET r == R.val.x % c.n
                        kinv == modinv(k.val, c.n)
                    IN IF kinv.st # "ok" THEN kinv
                       ELSE LET s == (kinv.val * (z + r * d)) % c.n
                            IN Ok(MinBytes(r) \o MinBytes(s))

verify(c, public_key, h1, signature) ==
    LET r_len == Len(signature) \div 2
        r == IntFromBytes(SubSeq(signature, 1, r_len))
        s == IntFromBytes(SubSeq(signature, r_len + 1, Len(signature)))
        z == IntFromBytes(h1)
        x_bytes == SubSeq(public_key, 1, Len(public_key) \div 2)
        y_bytes == SubSeq(public_key, Len(public_key) \div 2 + 1, Len(public_key))
        pub_point == Pt(IntFromBytes(x_bytes), IntFromBytes(y_bytes))
    IN IF ~is_on_curve(c, pub_point) THEN Ok(FALSE)
       ELSE LET w == modinv(s, c.n)
            IN IF w.st # "ok" THEN w
               ELSE LET u1 == (z * w.val) % c.n
                        u2 == (r * w.val) % c.n
                        sm1 == scalar_mult(c, u1, Infinity)
                        sm2 == scalar_mult(c, u2, pub_point)
                    IN IF sm1.st # "ok" THEN sm1
                       ELSE IF sm2.st # "ok" THEN sm2
                       ELSE LET point == point_add(c, sm1.val, sm2.val)
                            IN IF point.st # "ok" THEN point
                               ELSE IF is_infinite(point.val) THEN Ok(FALSE)
                               ELSE Ok((point.val.x % c.n) = r)

(***************************************************************************)
(* Uses of the signer.  Three scenarios, chosen with their inputs at the   *)
(* start:                                                                  *)
(*   "roundtrip"  generate_keypair, sign with its private key, verify with *)
(*                its public key; args = <<rand, h1, cands>>               *)
(*   "sign"       sign with caller-supplied key bytes;                     *)
(*                args = <<private_key, h1, cands>>                        *)
(*   "verify"     verify with caller-supplied bytes;                       *)
(*                args = <<public_key, h1, signature>>                     *)
(***************************************************************************)
Digests == {<<v>> : v \in 0..MaxDigest} \cup {<<255>>}

\* what the HMAC oracle yields: an accepted candidate, possibly after a
\* rejected one (0, or a value >= q)
CandidateSeqs(c) ==
    {<<k>> : k \in 1..(c.n - 1)}
        \cup {<<bad, k>> : bad \in {0, c.n}, k \in {1, c.n - 1}}

Rolen(c) == (BitLength(c.n) + 7) \div 8

\* private-key byte strings of the fixed width, in and out of [1, n-1]
SignKeys(c) ==
    IF Rolen(c) = 1
    THEN {<<d>> : d \in (0..MaxKey) \cup {255}} \cup {<<1, 0>>}
    ELSE {Digits(d, Rolen(c)) : d \in {0, 1, c.n - 1, c.n, c.n + 1, 2 * c.n}}

\* public-key byte strings: every pair of coordinates, on the curve or not,
\* reduced or not, in the encoding generate_keypair uses; and the empty one
VerifyKeys(c) ==
    {MinBytes(x) \o MinBytes(y) : x \in 0..(c.p + CoordExtra),
                                  y \in 0..(c.p + CoordExtra)}

\* signature byte strings: r and s in 0..n+1, minimal or one byte each
VerifySigs(c) ==
    {MinBytes(r) \o MinBytes(s) : r \in 0..(c.n + 1), s \in 0..(c.n + 1)}
        \cup {<<r, s>> : r \in 0..(c.n + 1), s \in 0..(c.n + 1)}

InitECDSA ==
    /\ \/ /\ cv \in {CurveT5, CurveT11, CurveT271}
          /\ op = "roundtrip"
          /\ args \in {<<rand, h1, cands>> : rand \in 0..MaxRand, h1 \in Digests,
                                             cands \in CandidateSeqs(cv)}
       \/ /\ cv \in {CurveT5, CurveT11, CurveT271}
          /\ op = "sign"
          /\ args \in {<<key, h1, cands>> : key \in SignKeys(cv), h1 \in Digests,
                                            cands \in CandidateSeqs(cv)}
       \/ /\ cv \in {CurveT5, CurveT11}
          /\ op = "verify"
          /\ args \in {<<key, h1, sig>> : key \in VerifyKeys(cv), h1 \in Digests,
                                          sig \in VerifySigs(cv)}
    /\ ret = None
    /\ kp = None /\ sg = None /\ xch = NoXch

GenerateKeypair ==
    /\ op = "roundtrip" /\ kp = None
    /\ kp' = ECDSA_generate_keypair(cv, args[1])
    /\ UNCHANGED <<cv, op, args, ret, sg, xch>>

\* sign with the private key generate_keypair returned
SignOwn ==
    /\ op = "roundtrip" /\ kp.st = "ok" /\ sg = None
    /\ sg' = sign(cv, kp.val.sk, args[2], args[3])
    /\ UNCHANGED <<cv, op, args, ret, kp, xch>>

\* verify the signature sign returned, with the public key of the pair
VerifyOwn ==
    /\ op = "roundtrip" /\ kp.st = "ok" /\ sg.st = "ok" /\ ret = None
    /\ ret' = verify(cv, kp.val.pk, args[2], sg.val)
    /\ UNCHANGED <<cv, op, args, kp, sg, xch>>

CallSign ==
    /\ op = "sign" /\ ret = None
    /\ ret' = sign(cv, args[1], args[2], args[3])
    /\ UNCHANGED <<cv, op, args, kp, sg, xch>>

CallVerify ==
    /\ op = "verify" /\ ret = None
    /\ ret' = verify(cv, args[1], args[2], args[3])
    /\ UNCHANGED <<cv, op, args, kp, sg, xch>>

NextECDSA == GenerateKeypair \/ SignOwn \/ VerifyOwn \/ CallSign \/ CallVerify

SpecECDSA == InitECDSA /\ [][NextECDSA]_vars

(***************************************************************************)
(* C1: verify is total: for every public key, message and signature byte   *)
(* string it returns a boolean and never raises; with an on-curve public   *)
(* key and s decoding to 0 the result is False.                            *)
(***************************************************************************)
C1_VerifyTotal ==
    (op \in {"verify", "roundtrip"} /\ ret # None)
        => (ret.st = "ok" /\ ret.val \in BOOLEAN)

(***************************************************************************)
(* C2: with the public and private key bytes as generate_keypair encodes   *)
(* them and the signature bytes as sign emits them, for every digest,      *)
(* verify(pk, m, sign(sk, m)) returns True.                                *)
(***************************************************************************)
C2_SignVerifyRoundTrip ==
    (op = "roundtrip" /\ ret # None) => (ret.st = "ok" /\ ret.val = TRUE)

\* the case C2 singles out: r and s of different byte lengths, both non-zero
\* (a signature of three bytes on a curve with 256 < n < 65536)
C2_UnequalLengthRoundTrip ==
    (op = "roundtrip" /\ ret # None /\ Len(sg.val) = 3)
        => (ret.st = "ok" /\ ret.val = TRUE)

(***************************************************************************)
(* C7: for every private_key whose value d is not in [1, n-1] (d = 0,      *)
(* d = n, or n < d < 2^(8*ceil(bitlen(n)/8))), sign fails and returns no   *)
(* signature.                                                              *)
(***************************************************************************)
C7_SignRejectsOutOfRangeKey ==
    (/\ op = "sign"
     /\ ret # None
     /\ IntFromBytes(args[1]) \notin 1..(cv.n - 1)
     /\ IntFromBytes(args[1]) < 256 ^ Rolen(cv))
        => ret.st # "ok"

(***************************************************************************)
(* C9: for every value the random source returns, generate_keypair         *)
(* completes without error and the private key decodes to a scalar in      *)
(* [1, n-1].                                                               *)
(***************************************************************************)
C9_KeypairAlwaysValid ==
    (op = "roundtrip" /\ kp # None)
        => /\ kp.st = "ok"
           /\ IntFromBytes(kp.val.sk) \in 1..(cv.n - 1)

=============================================================================
